---- MODULE Spec2Model ----
(***************************************************************************)
(* A model of chomp's combinators (src/combinators/mod.rs, bounded.rs) and *)
(* buffers (src/buffer/buffer.rs, slice.rs), with ascii::decimal.          *)
(*                                                                         *)
(* An Input is an offset into the item sequence `input` together with the  *)
(* END_OF_INPUT flag `eoi`; a Marker is a copy of that offset.  A parse    *)
(* State is one of                                                         *)
(*     [tag |-> "Data",       b |-> offset, v |-> value]                   *)
(*     [tag |-> "Error",      b |-> offset, e |-> error]                   *)
(*     [tag |-> "Incomplete", b |-> offset, n |-> requested]               *)
(***************************************************************************)
EXTENDS Integers, Sequences, FiniteSets, TLC

VARIABLES
    input,      \* the items behind the Input handed to the combinator
    eoi,        \* END_OF_INPUT flag of that Input
    range,      \* many: the BoundedRange value (r)
    parser,     \* many / stream: the element parser (f), the parser of the parse call
    buf,        \* many: Iter.buf, the offset of the remaining input
    mark,       \* many: Iter.mark
    data,       \* many: Iter.data, the range's iteration state
    state,      \* many: Iter.state, the EndState
    result,     \* many: the values collected by FromIterator
    sep,        \* sep_by: the separator parser (sep); many_till: the end parser (end)
    item,       \* sep_by: the closure's flag, set once an element has been parsed
    skipped,    \* skip_many / skip_many1 / many_till: what the call handed back
    comb,       \* or / look_ahead: which combinator is called
    f,          \* or / look_ahead: the first parser
    g,          \* or: the second parser
    i0,         \* or / look_ahead / option: the offset of the Input handed in
    default,    \* option: the default value
    kind,       \* buffer: "fixed" (FixedSizeBuffer) or "growing" (GrowingBuffer)
    self,       \* buffer: the struct [buffer, populated, limit, used]
    build,      \* buffer: "debug" (debug_assert! checked) or "release"
    srcpos,     \* buffer: number of items the DataSource has handed out
    lastop,     \* buffer: the last call [op, n, ret, pre]
    committed,  \* stream: number of source items consumed by the parses so far
    request,    \* stream: the window length the driver is filling up to
    nparse,     \* stream: number of parse calls made on the stream
    pos,        \* SliceStream: the field pos
    calls,      \* trace of parser invocations: [p, at, r]
    pc,         \* position of the running operation
    outcome     \* the State returned by the combinator

manyVars == <<range, parser, buf, mark, data, state, result, sep, item, skipped>>

combVars == <<comb, f, g, i0, default>>

bufVars == <<kind, self, build, srcpos, lastop>>

streamVars == <<committed, request, nparse, pos>>

vars == <<input, eoi, manyVars, combVars, bufVars, streamVars, calls, pc, outcome>>

(***************************************************************************)
(* Bounds of the model.                                                    *)
(***************************************************************************)
MaxLen == 5         \* longest input of the concrete element parsers
MaxN == 4           \* largest start / end of a range
MaxArbLen == 3      \* input length under the arbitrary element parser
MaxCalls == 4       \* most invocations of the arbitrary element parser in one run
MaxReq == 2         \* largest count an arbitrary parser asks for in Incomplete

Items == {"a", "b"}

RECURSIVE SeqsUpTo(_, _)
SeqsUpTo(S, k) ==
    IF k = 0 THEN {<<>>}
    ELSE LET shorter == SeqsUpTo(S, k - 1)
         IN  shorter \cup {Append(s, x) : s \in {t \in shorter : Len(t) = k - 1}, x \in S}

Max2(x, y) == IF x >= y THEN x ELSE y

NoOutcome == [tag |-> "None"]

(***************************************************************************)
(* Primitives on Input (spec section 4.1).                                 *)
(***************************************************************************)
ret(i, v) == [tag |-> "Data", b |-> i, v |-> v]

err(i, e) == [tag |-> "Error", b |-> i, e |-> e]

incomplete(i, n) == [tag |-> "Incomplete", b |-> i, n |-> n]

Marker(i) == i

restore(i, m) == m

is_end(i) == eoi

Remaining(i) == Len(input) - i

(***************************************************************************)
(* Leaf parsers used as element parsers (collaborators; behaviour as the   *)
(* tests of src/combinators pin it down).                                  *)
(***************************************************************************)
any(i) ==
    IF Remaining(i) = 0 THEN incomplete(i, 1)
    ELSE ret(i + 1, input[i + 1])

token(i, t) ==
    IF Remaining(i) = 0 THEN incomplete(i, 1)
    ELSE IF input[i + 1] = t THEN ret(i + 1, t)
    ELSE err(i, <<"expected", t>>)

\* offset of the first item of s that input does not match at i, 0 when all match
RECURSIVE Mismatch(_, _, _)
Mismatch(i, s, j) ==
    IF j > Len(s) THEN 0
    ELSE IF input[i + j] # s[j] THEN j
    ELSE Mismatch(i, s, j + 1)

string(i, s) ==
    IF Len(s) > Remaining(i) THEN incomplete(i, Len(s) - Remaining(i))
    ELSE LET j == Mismatch(i, s, 1)
         IN  IF j = 0 THEN ret(i + Len(s), s)
             ELSE err(i + j - 1, <<"expected", s[j]>>)

take(i, num) ==
    IF Remaining(i) < num THEN incomplete(i, num - Remaining(i))
    ELSE ret(i + num, SubSeq(input, i + 1, i + num))

\* ParseResult::then: the next step runs on the remainder of a Data outcome only
then(r, i, next(_)) == IF r.tag = "Data" THEN next(r.b) ELSE r

token_b(i) == token(i, "b")

take_2(i) == take(i, 2)

\* token(f) followed by take(2), the parser of the examples of slice.rs
token_f_then_take_2(i) == then(token(i, "f"), i, take_2)

\* token(a).then(token(b)): an element that consumes an item before it can
\* report Error or Incomplete
token_a_then_token_b(i) == then(token(i, "a"), i, token_b)

\* ascii::is_digit and the fold of ascii::to_decimal
Digits == <<"0", "1", "2", "3", "4", "5", "6", "7", "8", "9">>

is_digit(c) == \E k \in 1..Len(Digits) : Digits[k] = c

DigitValue(c) == (CHOOSE k \in 1..Len(Digits) : Digits[k] = c) - 1

RECURSIVE to_decimal(_, _)
to_decimal(b, a) ==
    IF b = <<>> THEN a
    ELSE to_decimal(Tail(b), a * 10 + DigitValue(Head(b)))

\* number of items from offset i on that are digits
RECURSIVE DigitRun(_)
DigitRun(i) ==
    IF Remaining(i) = 0 \/ ~is_digit(input[i + 1]) THEN 0
    ELSE 1 + DigitRun(i + 1)

\* take_while1(is_digit): one digit at least; a run that reaches the end of
\* the input is complete only when no more input can follow
take_while1_is_digit(i) ==
    LET n == DigitRun(i)
    IN  IF n = Remaining(i) /\ ~(n > 0 /\ is_end(i)) THEN incomplete(i, 1)
        ELSE IF n = 0 THEN err(i, "unexpected")
        ELSE ret(i + n, SubSeq(input, i + 1, i + n))

\* ascii::decimal
decimal(i) ==
    LET r == take_while1_is_digit(i)
    IN  IF r.tag = "Data" THEN ret(r.b, to_decimal(r.v, 0)) ELSE r

\* the byte of an item
Byte(c) ==
    CASE c = "\t" -> 9
      [] c = "\n" -> 10
      [] c = " " -> 32
      [] c = "a" -> 97
      [] c = "b" -> 98

\* ascii::is_whitespace
is_whitespace(c) == LET b == Byte(c) IN (9 <= b /\ b <= 13) \/ b = 32

\* number of items from offset i on that are whitespace
RECURSIVE WhitespaceRun(_)
WhitespaceRun(i) ==
    IF Remaining(i) = 0 \/ ~is_whitespace(input[i + 1]) THEN 0
    ELSE 1 + WhitespaceRun(i + 1)

\* take_while(is_whitespace): the run up to the first other item; a run that
\* reaches the end of the input is complete only when no more input can follow
take_while_is_whitespace(i) ==
    LET n == WhitespaceRun(i)
    IN  IF n = Remaining(i) /\ ~is_end(i) THEN incomplete(i, 1)
        ELSE ret(i + n, SubSeq(input, i + 1, i + n))

\* ascii::skip_whitespace: matches zero-length
skip_whitespace(i) ==
    LET r == take_while_is_whitespace(i)
    IN  IF r.tag = "Data" THEN ret(r.b, "()") ELSE r

\* every State an arbitrary parser can hand back when started at offset i
Arbitrary(i) ==
    {ret(j, i) : j \in i..Len(input)}
    \cup {err(j, "e") : j \in i..Len(input)}
    \cup {incomplete(j, n) : j \in i..Len(input), n \in 1..MaxReq}

ParserKinds == {"token_a", "any", "string_ab", "token_a_then_token_b", "arbitrary"}

\* the set of States parser p can return when run at offset i
Run(p, i) ==
    CASE p = "token_a" -> {token(i, "a")}
      [] p = "token_b" -> {token(i, "b")}
      [] p = "token_semi" -> {token(i, ";")}
      [] p = "token_f" -> {token(i, "f")}
      [] p = "token_f_then_take_2" -> {token_f_then_take_2(i)}
      [] p = "decimal" -> {decimal(i)}
      [] p = "any" -> {any(i)}
      [] p = "string_ab" -> {string(i, <<"a", "b">>)}
      [] p = "take_1" -> {take(i, 1)}
      [] p = "take_2" -> {take(i, 2)}
      [] p = "take_4" -> {take(i, 4)}
      [] p = "token_a_then_token_b" -> {token_a_then_token_b(i)}
      [] p = "skip_whitespace" -> {skip_whitespace(i)}
      [] p = "arbitrary" -> Arbitrary(i)

(***************************************************************************)
(* Bounded ranges: the state, `pre` and `on` blocks and the result arms of *)
(* each BoundedRange::parse_many (src/combinators/bounded.rs).             *)
(***************************************************************************)
Ranges ==
    {[shape |-> "Range", start |-> s, end |-> e] : s \in 0..MaxN, e \in 0..MaxN}
    \cup {[shape |-> "RangeFrom", start |-> s] : s \in 0..MaxN}
    \cup {[shape |-> "RangeFull"]}
    \cup {[shape |-> "RangeTo", end |-> e] : e \in 0..MaxN}
    \cup {[shape |-> "usize", n |-> n] : n \in 0..MaxN}

EndState_Error(m, e) == [tag |-> "Error", m |-> m, e |-> e]

EndState_Incomplete(n) == [tag |-> "Incomplete", n |-> n]

\* Range<usize>
\* mutant: the range is not checked
Range_assert_Unchecked(r) == TRUE

Range_assert(r) == r.start <= r.end

\* mutant: the end of the range is taken as inclusive
Range_state_Inclusive(r) == <<r.start, r.end>>

Range_state(r) == <<r.start, Max2(r.end, 1) - 1>>

\* mutant: the check of the remaining maximum is left out
Range_pre_NoMaxCheck(d) == FALSE

Range_pre(d) == d[2] = 0

\* mutant: a success does not use up the remaining maximum
Range_on_KeepsMax(d) == <<IF d[1] = 0 THEN 0 ELSE d[1] - 1, d[2]>>

Range_on(d) == <<IF d[1] = 0 THEN 0 ELSE d[1] - 1, d[2] - 1>>

Range_result(s, d, st, res) ==
    IF d = <<0, 0>> THEN ret(s, res)
    ELSE IF d[1] = 0 /\ st.tag = "Error" THEN ret(restore(s, st.m), res)
    ELSE IF d[1] = 0 /\ st.tag = "Incomplete"
         THEN IF is_end(s) THEN ret(s, res) ELSE incomplete(s, st.n)
    ELSE IF st.tag = "Error" THEN err(s, st.e)
    ELSE incomplete(s, st.n)

\* RangeFrom<usize>
RangeFrom_state(r) == r.start

RangeFrom_pre(d) == FALSE

RangeFrom_on(d) == IF d = 0 THEN 0 ELSE d - 1

\* mutant: Incomplete with the minimum met is turned into Data whatever the flag
RangeFrom_result_IgnoresEnd(s, d, st, res) ==
    IF d = 0 /\ st.tag = "Error" THEN ret(restore(s, st.m), res)
    ELSE IF d = 0 /\ st.tag = "Incomplete" THEN ret(s, res)
    ELSE IF st.tag = "Error" THEN err(s, st.e)
    ELSE incomplete(s, st.n)

RangeFrom_result(s, d, st, res) ==
    IF d = 0 /\ st.tag = "Error" THEN ret(restore(s, st.m), res)
    ELSE IF d = 0 /\ st.tag = "Incomplete"
         THEN IF is_end(s) THEN ret(s, res) ELSE incomplete(s, st.n)
    ELSE IF st.tag = "Error" THEN err(s, st.e)
    ELSE incomplete(s, st.n)

\* RangeFull
RangeFull_state(r) == <<>>

RangeFull_pre(d) == FALSE

RangeFull_on(d) == d

\* mutant: the Error arm does not restore the mark
RangeFull_result_NoRestore(s, d, st, res) ==
    IF st.tag = "Error" THEN ret(s, res)
    ELSE IF is_end(s) THEN ret(s, res) ELSE incomplete(s, st.n)

RangeFull_result(s, d, st, res) ==
    IF st.tag = "Error" THEN ret(restore(s, st.m), res)
    ELSE IF is_end(s) THEN ret(s, res) ELSE incomplete(s, st.n)

\* RangeTo<usize>
RangeTo_state(r) == Max2(r.end, 1) - 1

\* mutant: the counter is not tested before the element parser is run
RangeTo_pre_NoZeroCheck(d) == FALSE

RangeTo_pre(d) == d = 0

RangeTo_on(d) == d - 1

RangeTo_result(s, d, st, res) ==
    IF d = 0 THEN ret(s, res)
    ELSE IF st.tag = "Error" THEN ret(restore(s, st.m), res)
    ELSE IF is_end(s) THEN ret(s, res) ELSE incomplete(s, st.n)

\* usize (exactly n)
usize_state(r) == r.n

usize_pre(d) == d = 0

usize_on(d) == d - 1

\* mutant: the Error arm restores the mark before propagating
usize_result_Restores(s, d, st, res) ==
    IF d = 0 THEN ret(s, res)
    ELSE IF st.tag = "Error" THEN err(restore(s, st.m), st.e)
    ELSE incomplete(s, st.n)

usize_result(s, d, st, res) ==
    IF d = 0 THEN ret(s, res)
    ELSE IF st.tag = "Error" THEN err(s, st.e)
    ELSE incomplete(s, st.n)

\* dispatch on the type of the range (the trait's static dispatch)
parse_many_assert(r) == r.shape = "Range" => Range_assert(r)

parse_many_state(r) ==
    CASE r.shape = "Range" -> Range_state(r)
      [] r.shape = "RangeFrom" -> RangeFrom_state(r)
      [] r.shape = "RangeFull" -> RangeFull_state(r)
      [] r.shape = "RangeTo" -> RangeTo_state(r)
      [] r.shape = "usize" -> usize_state(r)

parse_many_pre(r, d) ==
    CASE r.shape = "Range" -> Range_pre(d)
      [] r.shape = "RangeFrom" -> RangeFrom_pre(d)
      [] r.shape = "RangeFull" -> RangeFull_pre(d)
      [] r.shape = "RangeTo" -> RangeTo_pre(d)
      [] r.shape = "usize" -> usize_pre(d)

parse_many_on(r, d) ==
    CASE r.shape = "Range" -> Range_on(d)
      [] r.shape = "RangeFrom" -> RangeFrom_on(d)
      [] r.shape = "RangeFull" -> RangeFull_on(d)
      [] r.shape = "RangeTo" -> RangeTo_on(d)
      [] r.shape = "usize" -> usize_on(d)

parse_many_result(r, s, d, st, res) ==
    CASE r.shape = "Range" -> Range_result(s, d, st, res)
      [] r.shape = "RangeFrom" -> RangeFrom_result(s, d, st, res)
      [] r.shape = "RangeFull" -> RangeFull_result(s, d, st, res)
      [] r.shape = "RangeTo" -> RangeTo_result(s, d, st, res)
      [] r.shape = "usize" -> usize_result(s, d, st, res)

(***************************************************************************)
(* bounded::many(i, r, f): the run_iter! iterator driven by FromIterator.  *)
(***************************************************************************)
IdleMany ==
    /\ range = [shape |-> "none"]
    /\ parser = "none"
    /\ buf = 0
    /\ mark = 0
    /\ data = <<>>
    /\ state = [tag |-> "None"]
    /\ result = <<>>
    /\ sep = "none"
    /\ item = FALSE
    /\ skipped = [tag |-> "None"]

IdleComb ==
    /\ comb = "none"
    /\ f = "none"
    /\ g = "none"
    /\ i0 = 0
    /\ default = "none"

IdleStream ==
    /\ committed = 0
    /\ request = 0
    /\ nparse = 0
    /\ pos = 0

IdleBuf ==
    /\ kind = "none"
    /\ self = [buffer |-> <<>>, populated |-> 0, limit |-> 0, used |-> 0]
    /\ build = "none"
    /\ srcpos = 0
    /\ lastop = [op |-> "none"]

ManyInputs(p) ==
    IF p = "arbitrary" THEN {[k \in 1..MaxArbLen |-> "a"]}
    ELSE SeqsUpTo(Items, MaxLen)

InitMany ==
    /\ parser \in ParserKinds
    /\ input \in ManyInputs(parser)
    /\ eoi \in BOOLEAN
    /\ range \in Ranges
    /\ buf = 0
    /\ mark = 0
    /\ data = <<>>
    /\ state = EndState_Incomplete(1)
    /\ result = <<>>
    /\ sep = "none"
    /\ item = FALSE
    /\ skipped = NoOutcome
    /\ calls = <<>>
    /\ pc = "many"
    /\ outcome = NoOutcome
    /\ IdleComb
    /\ IdleBuf
    /\ IdleStream

\* entry of parse_many: the range's assertion, then the Iter is built
many ==
    /\ pc = "many"
    /\ IF parse_many_assert(range)
       THEN /\ data' = parse_many_state(range)
            /\ mark' = Marker(buf)
            /\ pc' = "collect"
       ELSE /\ pc' = "panic"
            /\ UNCHANGED <<data, mark>>
    /\ UNCHANGED <<input, eoi, range, parser, buf, state, result, sep, item, skipped, calls,
                   outcome, combVars, bufVars, streamVars>>

\* an invocation in the trace: which parser, where it started, what it returned
Call(p, i, r) == [p |-> p, at |-> i, r |-> r]

\* mutant: the separator is run in front of the first element as well
sep_by_parser_SepFirst(it, i) ==
    UNION {IF sr.tag = "Data"
           THEN {[r |-> pr, item |-> it \/ pr.tag = "Data",
                  trace |-> <<Call("sep", i, sr), Call("p", sr.b, pr)>>] :
                 pr \in Run(parser, sr.b)}
           ELSE {[r |-> sr, item |-> it, trace |-> <<Call("sep", i, sr)>>]} :
           sr \in Run(sep, i)}

\* mutant: p is run on the remainder of sep whatever sep returned
sep_by_parser_NoShortCircuit(it, i) ==
    IF it
    THEN UNION {{[r |-> pr, item |-> TRUE,
                  trace |-> <<Call("sep", i, sr), Call("p", sr.b, pr)>>] :
                 pr \in Run(parser, sr.b)} :
                sr \in Run(sep, i)}
    ELSE {[r |-> pr, item |-> pr.tag = "Data", trace |-> <<Call("p", i, pr)>>] :
          pr \in Run(parser, i)}

\* the closure sep_by hands to parse_many, with the flag item at it: sep in
\* front of p once an element has been read, p alone before; the value of sep
\* is dropped, its Error or Incomplete ends the iteration, and a Data outcome
\* of the whole sets the flag.  Yields the State, the flag and the invocations.
sep_by_parser(it, i) ==
    IF it
    THEN UNION {IF sr.tag = "Data"
                THEN {[r |-> pr, item |-> TRUE,
                       trace |-> <<Call("sep", i, sr), Call("p", sr.b, pr)>>] :
                      pr \in Run(parser, sr.b)}
                ELSE {[r |-> sr, item |-> it, trace |-> <<Call("sep", i, sr)>>]} :
                sr \in Run(sep, i)}
    ELSE {[r |-> pr, item |-> pr.tag = "Data", trace |-> <<Call("p", i, pr)>>] :
          pr \in Run(parser, i)}

\* the parser Iter::next runs: f for many, the closure for sep_by
Iter_parser(i) ==
    IF sep = "none"
    THEN {[r |-> r, item |-> item, trace |-> <<Call("f", i, r)>>] : r \in Run(parser, i)}
    ELSE sep_by_parser(item, i)

\* one call of Iter::next by the collecting FromIterator
Iter_next ==
    /\ pc = "collect"
    /\ IF parse_many_pre(range, data)
       THEN /\ pc' = "end_state"
            /\ UNCHANGED <<buf, mark, data, state, result, item, calls>>
       ELSE /\ (parser \in {"arbitrary", "skip_whitespace"} \/ sep = "arbitrary")
                  => Len(calls) < MaxCalls
            /\ \E x \in Iter_parser(buf) : LET r == x.r IN
                /\ mark' = Marker(buf)
                /\ calls' = calls \o x.trace
                /\ item' = x.item
                /\ buf' = r.b
                /\ CASE r.tag = "Data" ->
                            /\ data' = parse_many_on(range, data)
                            /\ result' = Append(result, r.v)
                            /\ UNCHANGED <<state, pc>>
                     [] r.tag = "Error" ->
                            /\ state' = EndState_Error(mark', r.e)
                            /\ pc' = "end_state"
                            /\ UNCHANGED <<data, result>>
                     [] r.tag = "Incomplete" ->
                            /\ state' = EndState_Incomplete(r.n)
                            /\ pc' = "end_state"
                            /\ UNCHANGED <<data, result>>
    /\ UNCHANGED <<input, eoi, range, parser, sep, skipped, outcome, combVars, bufVars, streamVars>>

\* the match on the iterator's end state: the result arms of the range
Iter_end_state ==
    /\ pc = "end_state"
    /\ outcome' = parse_many_result(range, buf, data, state, result)
    /\ pc' = "done"
    /\ UNCHANGED <<input, eoi, manyVars, calls, combVars, bufVars, streamVars>>

NextMany == many \/ Iter_next \/ Iter_end_state

SpecMany == InitMany /\ [][NextMany]_vars

\* many over skip_whitespace, an element parser that matches zero-length
WhitespaceInputs == SeqsUpTo({" ", "\t", "a"}, MaxArbLen)

InitWhitespace ==
    /\ parser = "skip_whitespace"
    /\ input \in WhitespaceInputs
    /\ eoi \in BOOLEAN
    /\ range \in Ranges
    /\ buf = 0
    /\ mark = 0
    /\ data = <<>>
    /\ state = EndState_Incomplete(1)
    /\ result = <<>>
    /\ sep = "none"
    /\ item = FALSE
    /\ skipped = NoOutcome
    /\ calls = <<>>
    /\ pc = "many"
    /\ outcome = NoOutcome
    /\ IdleComb
    /\ IdleBuf
    /\ IdleStream

SpecWhitespace == InitWhitespace /\ [][NextMany]_vars

(***************************************************************************)
(* bounded::sep_by(i, r, p, sep): parse_many over the closure that puts    *)
(* sep in front of p from the second element on.                           *)
(***************************************************************************)
SepByParsers == {"any", "token_a", "decimal", "arbitrary"}

SepParsers == {"token_semi", "arbitrary"}

\* scenario C of the spec: 91;03;20
Scenario_C == <<"9", "1", ";", "0", "3", ";", "2", "0">>

SepByInputs(p, s) ==
    IF p = "arbitrary" \/ s = "arbitrary" THEN {[k \in 1..MaxArbLen |-> "a"]}
    ELSE IF p = "decimal" THEN SeqsUpTo({"1", ";"}, MaxLen - 1) \cup {Scenario_C}
    ELSE SeqsUpTo({"a", ";"}, MaxLen)

InitSepBy ==
    /\ parser \in SepByParsers
    /\ sep \in SepParsers
    /\ (parser = "arbitrary") = (sep = "arbitrary")
    /\ input \in SepByInputs(parser, sep)
    /\ eoi \in BOOLEAN
    /\ range \in Ranges
    /\ buf = 0
    /\ mark = 0
    /\ data = <<>>
    /\ state = EndState_Incomplete(1)
    /\ result = <<>>
    /\ item = FALSE
    /\ skipped = NoOutcome
    /\ calls = <<>>
    /\ pc = "sep_by"
    /\ outcome = NoOutcome
    /\ IdleComb
    /\ IdleBuf
    /\ IdleStream

\* sep_by: the flag starts cleared, then parse_many is entered with the closure
sep_by ==
    /\ pc = "sep_by"
    /\ item' = FALSE
    /\ IF parse_many_assert(range)
       THEN /\ data' = parse_many_state(range)
            /\ mark' = Marker(buf)
            /\ pc' = "collect"
       ELSE /\ pc' = "panic"
            /\ UNCHANGED <<data, mark>>
    /\ UNCHANGED <<input, eoi, range, parser, buf, state, result, sep, skipped, calls,
                   outcome, combVars, bufVars, streamVars>>

NextSepBy == sep_by \/ Iter_next \/ Iter_end_state

SpecSepBy == InitSepBy /\ [][NextSepBy]_vars

\* many and sep_by side by side
NextBounded == many \/ sep_by \/ Iter_next \/ Iter_end_state

SpecBounded == (InitMany \/ InitSepBy) /\ [][NextBounded]_vars

\* C26: many or sep_by over a range whose start exceeds its end (2..1) panics
\* before any parser is invoked and before any input is consumed.
C26_BackwardRangePanics ==
    (/\ range.shape = "Range"
     /\ range.start > range.end
     /\ pc \notin {"many", "sep_by"})
        => /\ pc = "panic"
           /\ calls = <<>>
           /\ buf = 0
           /\ result = <<>>
           /\ outcome = NoOutcome

C26_Witness ==
    /\ pc = "panic"
    /\ sep = "token_semi"
    /\ parser = "any"
    /\ range = [shape |-> "Range", start |-> 2, end |-> 1]
    /\ input = <<"a", ";", "a">>
    /\ calls = <<>>

(***************************************************************************)
(* skip_many, skip_many1 and many_till of src/combinators/mod.rs.  The     *)
(* bodies of skip_many and skip_many1 are unimplemented!(); many_till      *)
(* calls bounded::many_till, which bounded.rs holds only inside a comment. *)
(* skip_many and skip_many1 are called on the input a run of many (..) or  *)
(* many1 (1..) has just finished on.                                       *)
(***************************************************************************)
\* unimplemented!(): the call panics
unimplemented == [tag |-> "Panic"]

\* a call of a function the crate does not define yields no State
unresolved == [tag |-> "Unresolved"]

ManyTillParsers == {"any", "token_a"}

EndParsers == {"token_b", "token_semi"}

InitUnfinished ==
    \/ /\ InitMany
       /\ range \in {[shape |-> "RangeFull"], [shape |-> "RangeFrom", start |-> 1]}
    \/ /\ parser \in ManyTillParsers
       /\ sep \in EndParsers
       /\ input \in SeqsUpTo({"a", "b", ";"}, MaxLen - 1)
       /\ eoi \in BOOLEAN
       /\ range = [shape |-> "RangeFull"]
       /\ buf = 0
       /\ mark = 0
       /\ data = <<>>
       /\ state = EndState_Incomplete(1)
       /\ result = <<>>
       /\ item = FALSE
       /\ skipped = NoOutcome
       /\ calls = <<>>
       /\ pc = "many_till"
       /\ outcome = NoOutcome
       /\ IdleComb
       /\ IdleBuf
       /\ IdleStream

skip_many ==
    /\ pc = "done"
    /\ range = [shape |-> "RangeFull"]
    /\ skipped' = unimplemented
    /\ pc' = "skipped"
    /\ UNCHANGED <<input, eoi, range, parser, buf, mark, data, state, result, sep, item,
                   calls, outcome, combVars, bufVars, streamVars>>

skip_many1 ==
    /\ pc = "done"
    /\ range = [shape |-> "RangeFrom", start |-> 1]
    /\ skipped' = unimplemented
    /\ pc' = "skipped"
    /\ UNCHANGED <<input, eoi, range, parser, buf, mark, data, state, result, sep, item,
                   calls, outcome, combVars, bufVars, streamVars>>

many_till ==
    /\ pc = "many_till"
    /\ outcome' = unresolved
    /\ pc' = "returned"
    /\ UNCHANGED <<input, eoi, manyVars, calls, combVars, bufVars, streamVars>>

NextUnfinished == many \/ Iter_next \/ Iter_end_state \/ skip_many \/ skip_many1 \/ many_till

SpecUnfinished == InitUnfinished /\ [][NextUnfinished]_vars

\* many_till as the documentation describes it: end is tried before each
\* element; when it succeeds the values so far are returned at its remainder,
\* when it fails the element runs from the same offset, and an Error or
\* Incomplete of the element is the result
RECURSIVE many_till_documented(_, _)
many_till_documented(i, acc) ==
    LET e == CHOOSE x \in Run(sep, i) : TRUE
        r == CHOOSE x \in Run(parser, restore(e.b, Marker(i))) : TRUE
    IN  IF e.tag = "Data" THEN ret(e.b, acc)
        ELSE IF r.tag = "Data" THEN many_till_documented(r.b, Append(acc, r.v))
        ELSE r

(***************************************************************************)
(* Vocabulary of the claims about many, read off the trace of element      *)
(* parser invocations and the range as the caller wrote it.                *)
(***************************************************************************)
Attempts == Len(calls)

Successes == Cardinality({k \in 1..Len(calls) : calls[k].r.tag = "Data"})

Last == calls[Len(calls)]

\* the offset right after the last invocation (the start when there was none)
AfterLast == IF calls = <<>> THEN 0 ELSE Last.r.b

RECURSIVE ValuesOf(_)
ValuesOf(cs) ==
    IF cs = <<>> THEN <<>>
    ELSE IF cs[1].r.tag = "Data" THEN <<cs[1].r.v>> \o ValuesOf(Tail(cs))
    ELSE ValuesOf(Tail(cs))

BoundMin(r) ==
    CASE r.shape = "Range" -> r.start
      [] r.shape = "RangeFrom" -> r.start
      [] r.shape = "usize" -> r.n
      [] OTHER -> 0

HasMax(r) == r.shape \in {"Range", "RangeTo", "usize"}

BoundMax(r) ==
    CASE r.shape = "usize" -> r.n
      [] OTHER -> Max2(r.end, 1) - 1

RemainingMin == Max2(BoundMin(range) - Successes, 0)

LastIs(tag) == calls # <<>> /\ Last.r.tag = tag

\* C1: many returns Data only after at least min successes of the element
\* parser, and the element parser never succeeds more than max times in a run
\* (max = n for exact n, max(b,1)-1 for ..b and a..b).
C1_ManyWithinBounds ==
    /\ (pc = "done" /\ outcome.tag = "Data") => Successes >= BoundMin(range)
    /\ HasMax(range) => Successes <= BoundMax(range)

C1_Witness ==
    /\ pc = "done"
    /\ parser = "arbitrary"
    /\ range = [shape |-> "Range", start |-> 2, end |-> 4]
    /\ outcome.tag = "Data"
    /\ Successes = 3

\* C3 as stated: once the successes reach the maximum of the bound, many
\* returns Data with the cursor right after the last element and the element
\* parser is not invoked again.
C3_Original ==
    (pc = "done" /\ HasMax(range) /\ Successes = BoundMax(range))
        => /\ outcome = ret(AfterLast, ValuesOf(calls))
           /\ Attempts = BoundMax(range)

\* C3 as amended: the same, for the bounds whose minimum does not exceed
\* their maximum (every bound but the empty ranges a..a with a >= 1).
C3_StopsAtMax ==
    (/\ pc = "done"
     /\ HasMax(range)
     /\ Successes = BoundMax(range)
     /\ BoundMin(range) <= BoundMax(range))
        => /\ outcome = ret(AfterLast, ValuesOf(calls))
           /\ Attempts = BoundMax(range)

C3_Witness ==
    /\ pc = "done"
    /\ parser = "token_a"
    /\ range = [shape |-> "Range", start |-> 2, end |-> 4]
    /\ input = <<"a", "a", "a", "a", "b">>
    /\ ~eoi
    /\ outcome = ret(3, <<"a", "a", "a">>)

\* C4: an element Error with the remaining minimum at 0 makes many return
\* Data at the offset the failed attempt started from, with the values
\* accumulated so far.
C4_ErrorAfterMinRestores ==
    (pc = "done" /\ LastIs("Error") /\ RemainingMin = 0)
        => outcome = ret(Last.at, ValuesOf(calls))

C4_Witness ==
    /\ pc = "done"
    /\ parser = "string_ab"
    /\ LastIs("Error")
    /\ Last.r.b > Last.at
    /\ Successes = 1
    /\ outcome = ret(Last.at, <<(<<"a", "b">>)>>)

\* C5: an element Error with the remaining minimum above 0 is returned as it
\* is, with the cursor where the failing attempt stopped.
C5_ErrorBeforeMinPropagates ==
    (pc = "done" /\ LastIs("Error") /\ RemainingMin > 0)
        => outcome = err(Last.r.b, Last.r.e)

C5_Witness ==
    /\ pc = "done"
    /\ parser = "token_a"
    /\ range = [shape |-> "usize", n |-> 2]
    /\ input = <<"a", "b">>
    /\ outcome = err(1, <<"expected", "a">>)

\* C6 as stated: an element Incomplete at end-of-input with the remaining
\* minimum at 0 makes many return Data at the offset the attempt started
\* from, with the accumulated values.
C6_IncompleteAtEndRestores ==
    (pc = "done" /\ LastIs("Incomplete") /\ eoi /\ RemainingMin = 0)
        => outcome = ret(Last.at, ValuesOf(calls))

\* C7: an element Incomplete(n) while end-of-input is not set, or while the
\* remaining minimum is above 0, makes many return Incomplete(n).
C7_IncompletePropagates ==
    (pc = "done" /\ LastIs("Incomplete") /\ (~eoi \/ RemainingMin > 0))
        => outcome.tag = "Incomplete" /\ outcome.n = Last.r.n

C7_Witness ==
    /\ pc = "done"
    /\ parser = "any"
    /\ range = [shape |-> "RangeFull"]
    /\ ~eoi
    /\ Successes = Len(input)
    /\ Len(input) = 2
    /\ outcome = incomplete(2, 1)

\* C34: when many over a..b returns Data, the number c of collected values
\* satisfies a <= c <= max(b,1)-1; over an empty range a..a with a >= 1 it
\* never returns Data but Error or Incomplete.
C34_ClosedOpenBound ==
    (pc = "done" /\ range.shape = "Range") =>
        /\ outcome.tag = "Data"
              => Len(outcome.v) \in range.start..(Max2(range.end, 1) - 1)
        /\ (range.start = range.end /\ range.start >= 1)
              => outcome.tag \in {"Error", "Incomplete"}

\* 2..2 on aaa at end-of-input: one element is collected, then Incomplete
C34_Witness ==
    /\ pc = "done"
    /\ range = [shape |-> "Range", start |-> 2, end |-> 2]
    /\ parser = "token_a"
    /\ input = <<"a", "a", "a">>
    /\ eoi
    /\ Successes = 1
    /\ outcome.tag = "Incomplete"

\* the bounds whose maximum is 0: exact 0, ..0, ..1, 0..0 and 0..1
MaxIsZero(r) ==
    \/ r.shape = "usize" /\ r.n = 0
    \/ r.shape = "RangeTo" /\ r.end \in {0, 1}
    \/ r.shape = "Range" /\ r.start = 0 /\ r.end \in {0, 1}

\* the remaining-min and remaining-max counters of a run in progress or ended
CountersNonNegative ==
    pc \in {"collect", "done"} =>
        CASE range.shape = "Range" -> data[1] >= 0 /\ data[2] >= 0
          [] range.shape \in {"RangeFrom", "RangeTo", "usize"} -> data >= 0
          [] OTHER -> TRUE

\* C37: over a bound whose maximum is 0 many returns Data with an empty
\* collection and the cursor where it started, without invoking the element
\* parser, for every input and end-of-input flag; and the counters of
\* remaining minimum and maximum never go below 0.
C37_ZeroMaximum ==
    /\ (pc = "done" /\ MaxIsZero(range))
          => /\ outcome.tag = "Data"
             /\ outcome.v = <<>>
             /\ outcome.b = 0
             /\ calls = <<>>
    /\ MaxIsZero(range) => calls = <<>>
    /\ CountersNonNegative

\* ..1 on an input the element parser would accept
C37_Witness ==
    /\ pc = "done"
    /\ range = [shape |-> "RangeTo", end |-> 1]
    /\ parser = "token_a"
    /\ input # <<>> /\ input[1] = "a"
    /\ outcome.tag = "Data"
    /\ outcome.v = <<>>
    /\ outcome.b = 0
    /\ calls = <<>>

\* C35 as stated: many over an unbounded maximum (.. and n..) terminates on
\* every finite input for every element parser.  An iteration of a
\* deterministic element parser that leaves the cursor and the counters as
\* they were and the run still collecting is repeated without end, so in a run
\* that terminates no iteration does that.
C35_UnboundedTerminates ==
    [][(/\ range.shape \in {"RangeFull", "RangeFrom"}
        /\ parser # "arbitrary"
        /\ pc = "collect"
        /\ pc' = "collect"
        /\ calls' # calls)
          => <<buf', data', item'>> # <<buf, data, item>>]_vars

(***************************************************************************)
(* Vocabulary of the claims about sep_by: the invocations of p among the   *)
(* trace, and the last iteration of the closure.                           *)
(***************************************************************************)
IsP(c) == c.p = "p"

PCalls == SelectSeq(calls, IsP)

Elements == Len(ValuesOf(PCalls))

\* the offset the last iteration of the closure started from
LastIterationAt ==
    IF Last.p = "p" /\ Len(calls) > 1 THEN calls[Len(calls) - 1].at ELSE Last.at

\* the last iteration ran the separator and then failed as an element
SepThenElement(tag) ==
    /\ Len(calls) > 1
    /\ Last.p = "p"
    /\ Last.r.tag = tag
    /\ calls[Len(calls) - 1].p = "sep"

\* C22: sep_by runs p alone in its first iteration and sep followed by p, on
\* the remainder of sep, in every later one; the values collected are those of
\* p, in order, and it is the elements that the bound counts.
C22_SepByElements ==
    /\ calls # <<>> => calls[1] = Call("p", 0, calls[1].r)
    /\ \A k \in 2..Len(calls) :
          /\ calls[k].p \in {"p", "sep"}
          /\ calls[k].p # calls[k - 1].p
          /\ calls[k - 1].r.tag = "Data"
          /\ calls[k].at = calls[k - 1].r.b
    /\ result = ValuesOf(PCalls)
    /\ HasMax(range) => Elements <= BoundMax(range)
    /\ (pc = "done" /\ outcome.tag = "Data")
          => outcome.v = ValuesOf(PCalls) /\ Elements >= BoundMin(range)

\* scenario C: 91;03;20 at end-of-input
C22_Witness ==
    /\ pc = "done"
    /\ parser = "decimal"
    /\ sep = "token_semi"
    /\ input = Scenario_C
    /\ eoi
    /\ range = [shape |-> "RangeFull"]
    /\ Len(calls) = 6
    /\ outcome = ret(Len(input), <<91, 3, 20>>)

\* the State an iteration handed to the iterator, as its end state records it
EndStateOf(r) ==
    IF r.tag = "Error" THEN state.tag = "Error" /\ state.e = r.e
    ELSE state.tag = "Incomplete" /\ state.n = r.n

\* C32: in the closure of sep_by, p is run only after a Data outcome of sep
\* and from the remainder of that outcome; after an Error or Incomplete of sep
\* p is not run in that iteration, and the outcome of sep is what the iteration
\* returns: its remainder, and its error or requested count.
C32_SequencingShortCircuits ==
    /\ \A k \in 1..Len(calls) :
          /\ (calls[k].p = "p" /\ k > 1)
                => /\ calls[k - 1].p = "sep"
                   /\ calls[k - 1].r.tag = "Data"
                   /\ calls[k].at = calls[k - 1].r.b
          /\ (calls[k].p = "sep" /\ calls[k].r.tag # "Data") => k = Len(calls)
          /\ (calls[k].p = "sep" /\ calls[k].r.tag = "Data")
                => k < Len(calls) /\ calls[k + 1].p = "p"
    /\ (calls # <<>> /\ Last.p = "sep" /\ Last.r.tag # "Data")
          => /\ pc \in {"end_state", "done"}
             /\ buf = Last.r.b
             /\ EndStateOf(Last.r)

\* a separator that fails after an element: no element parser runs after it
C32_Witness ==
    /\ pc = "done"
    /\ parser = "token_a"
    /\ sep = "token_semi"
    /\ input = <<"a", ";", "a", "a">>
    /\ Len(calls) = 4
    /\ Last.p = "sep"
    /\ Last.r.tag = "Error"
    /\ Last.at = 3

\* C23 as stated: with the minimum met, a separator that returns Error, or a
\* separator that succeeds in front of an element that returns Error (or
\* Incomplete at end-of-input), makes sep_by return Data at the offset before
\* that separator.
C23_NoTrailingSeparator ==
    (/\ pc = "done"
     /\ Elements >= BoundMin(range)
     /\ \/ calls # <<>> /\ Last.p = "sep" /\ Last.r.tag = "Error"
        \/ SepThenElement("Error")
        \/ SepThenElement("Incomplete") /\ eoi)
        => outcome = ret(LastIterationAt, ValuesOf(PCalls))

\* C24: skip_many and skip_many1 return what many and many1 return on the
\* same input and element parser (the same tag and remainder, the same error
\* or requested count), with () in place of the collected values.
C24_SkipAsMany ==
    pc = "skipped" =>
        /\ skipped.tag = outcome.tag
        /\ skipped.b = outcome.b
        /\ outcome.tag = "Data" => skipped.v = <<>>
        /\ outcome.tag = "Error" => skipped.e = outcome.e
        /\ outcome.tag = "Incomplete" => skipped.n = outcome.n

\* C25: many_till(element, end) tries end before each element; a success of
\* end gives Data with the elements so far and the cursor after the end
\* marker; after a failure of end the element runs from the same offset, and
\* its Error or Incomplete is the result (abcd with end c: a, b and
\* remainder d).
C25_ManyTill ==
    pc = "returned" => outcome = many_till_documented(0, <<>>)

(***************************************************************************)
(* or(i, f, g) and look_ahead(i, f) (src/combinators/mod.rs).  The match   *)
(* on the State of f is an operator: it yields either the State to return  *)
(* ([ret |-> ...]) or the Input g is to be run on ([g |-> ...]).           *)
(***************************************************************************)
CombParsers ==
    {"any", "token_a", "token_b", "take_1", "take_2", "string_ab",
     "token_a_then_token_b", "arbitrary"}

MaxCombLen == 2     \* longest input of or / look_ahead

\* mutant: Incomplete of f falls through to g whatever the flag
or_match_AlwaysG(m, st) ==
    CASE st.tag = "Data" -> [ret |-> ret(st.b, st.v)]
      [] st.tag = "Error" -> [g |-> restore(st.b, m)]
      [] st.tag = "Incomplete" -> [g |-> restore(st.b, m)]

\* mutant: g is run where f failed, without restoring the mark
or_match_NoRestore(m, st) ==
    CASE st.tag = "Data" -> [ret |-> ret(st.b, st.v)]
      [] st.tag = "Error" -> [g |-> st.b]
      [] st.tag = "Incomplete" ->
            LET b == restore(st.b, m)
            IN  IF is_end(b) THEN [g |-> b] ELSE [ret |-> incomplete(b, st.n)]

or_match(m, st) ==
    CASE st.tag = "Data" -> [ret |-> ret(st.b, st.v)]
      [] st.tag = "Error" -> [g |-> restore(st.b, m)]
      [] st.tag = "Incomplete" ->
            LET b == restore(st.b, m)
            IN  IF is_end(b) THEN [g |-> b] ELSE [ret |-> incomplete(b, st.n)]

\* mutant: the Error arm does not restore the mark
look_ahead_match_NoRestore(m, st) ==
    CASE st.tag = "Data" -> ret(restore(st.b, m), st.v)
      [] st.tag = "Error" -> err(st.b, st.e)
      [] st.tag = "Incomplete" -> incomplete(restore(st.b, m), st.n)

\* mutant: after Data of f the cursor stays where f stopped
look_ahead_match_DataKeepsCursor(m, st) ==
    CASE st.tag = "Data" -> ret(st.b, st.v)
      [] st.tag = "Error" -> err(restore(st.b, m), st.e)
      [] st.tag = "Incomplete" -> incomplete(restore(st.b, m), st.n)

look_ahead_match(m, st) ==
    CASE st.tag = "Data" -> ret(restore(st.b, m), st.v)
      [] st.tag = "Error" -> err(restore(st.b, m), st.e)
      [] st.tag = "Incomplete" -> incomplete(restore(st.b, m), st.n)

\* mutant: the Error arm yields the default where f failed
option_match_NoRestore(m, st, d) ==
    CASE st.tag = "Data" -> ret(st.b, st.v)
      [] st.tag = "Error" -> ret(st.b, d)
      [] st.tag = "Incomplete" ->
            LET b == restore(st.b, m)
            IN  IF is_end(b) THEN ret(b, d) ELSE incomplete(b, st.n)

option_match(m, st, d) ==
    CASE st.tag = "Data" -> ret(st.b, st.v)
      [] st.tag = "Error" -> ret(restore(st.b, m), d)
      [] st.tag = "Incomplete" ->
            LET b == restore(st.b, m)
            IN  IF is_end(b) THEN ret(b, d) ELSE incomplete(b, st.n)

\* the default values handed to option
Defaults == {"d", "a"}

\* |i| i.ret(d): the parser that succeeds with d and consumes nothing
always_ret(i, d) == ret(i, d)

InitComb ==
    /\ input \in SeqsUpTo(Items, MaxCombLen)
    /\ eoi \in BOOLEAN
    /\ comb \in {"or", "look_ahead", "option"}
    /\ f \in CombParsers
    /\ g \in IF comb = "or" THEN CombParsers ELSE {"none"}
    /\ default \in IF comb = "option" THEN Defaults ELSE {"none"}
    /\ i0 \in 0..Len(input)
    /\ calls = <<>>
    /\ pc = "call"
    /\ outcome = NoOutcome
    /\ IdleMany
    /\ IdleBuf
    /\ IdleStream

or ==
    /\ pc = "call"
    /\ comb = "or"
    /\ \E fr \in Run(f, i0) :
        LET m == Marker(i0)
            k == or_match(m, fr)
            fcall == [p |-> "f", at |-> i0, r |-> fr]
        IN  IF "g" \in DOMAIN k
            THEN \E gr \in Run(g, k.g) :
                    /\ calls' = <<fcall, [p |-> "g", at |-> k.g, r |-> gr]>>
                    /\ outcome' = gr
            ELSE /\ calls' = <<fcall>>
                 /\ outcome' = k.ret
    /\ pc' = "done"
    /\ UNCHANGED <<input, eoi, manyVars, combVars, bufVars, streamVars>>

look_ahead ==
    /\ pc = "call"
    /\ comb = "look_ahead"
    /\ \E fr \in Run(f, i0) :
        /\ calls' = <<[p |-> "f", at |-> i0, r |-> fr]>>
        /\ outcome' = look_ahead_match(Marker(i0), fr)
    /\ pc' = "done"
    /\ UNCHANGED <<input, eoi, manyVars, combVars, bufVars, streamVars>>

option ==
    /\ pc = "call"
    /\ comb = "option"
    /\ \E fr \in Run(f, i0) :
        /\ calls' = <<[p |-> "f", at |-> i0, r |-> fr]>>
        /\ outcome' = option_match(Marker(i0), fr, default)
    /\ pc' = "done"
    /\ UNCHANGED <<input, eoi, manyVars, combVars, bufVars, streamVars>>

NextComb == or \/ look_ahead \/ option

SpecComb == InitComb /\ [][NextComb]_vars

CallsOf(p) == {k \in 1..Len(calls) : calls[k].p = p}

OrDone == pc = "done" /\ comb = "or"

\* C8: or invokes f exactly once; after Data of f, g is not invoked; after
\* Incomplete(n) of f without end-of-input, or returns Incomplete(n) and g is
\* not invoked; after Incomplete of f at end-of-input, g is run from the
\* offset before f and its outcome is returned.
C8_OrIncomplete ==
    OrDone =>
        /\ CallsOf("f") = {1}
        /\ calls[1].at = i0
        /\ calls[1].r.tag = "Data" => CallsOf("g") = {}
        /\ (calls[1].r.tag = "Incomplete" /\ ~eoi)
              => /\ CallsOf("g") = {}
                 /\ outcome.tag = "Incomplete"
                 /\ outcome.n = calls[1].r.n
        /\ (calls[1].r.tag = "Incomplete" /\ eoi)
              => /\ CallsOf("g") = {2}
                 /\ calls[2].at = i0
                 /\ outcome = calls[2].r

C8_Witness ==
    /\ OrDone
    /\ f = "take_2"
    /\ g = "take_1"
    /\ input = <<"a">>
    /\ i0 = 0
    /\ eoi
    /\ outcome = ret(1, <<"a">>)

\* C9: after Error of f, g is run exactly once from the offset before f and
\* the outcome of or is the outcome of g.
C9_OrError ==
    (OrDone /\ calls[1].r.tag = "Error")
        => /\ CallsOf("g") = {2}
           /\ calls[2].at = i0
           /\ outcome = calls[2].r

C9_Witness ==
    /\ OrDone
    /\ f = "string_ab"
    /\ g = "token_b"
    /\ input = <<"a", "a">>
    /\ i0 = 0
    /\ calls[1].r = err(1, <<"expected", "b">>)
    /\ outcome = err(0, <<"expected", "b">>)

\* C10: look_ahead returns the tag of f with its value, error or requested
\* count, at the offset before f.
C10_LookAhead ==
    (pc = "done" /\ comb = "look_ahead")
        => LET fr == calls[1].r
           IN  /\ Len(calls) = 1
               /\ calls[1].at = i0
               /\ fr.tag = "Data" => outcome = ret(i0, fr.v)
               /\ fr.tag = "Error" => outcome = err(i0, fr.e)
               /\ fr.tag = "Incomplete" => outcome = incomplete(i0, fr.n)

C10_Witness ==
    /\ pc = "done"
    /\ comb = "look_ahead"
    /\ f = "token_a_then_token_b"
    /\ input = <<"a", "a">>
    /\ i0 = 0
    /\ calls[1].r.b = 1
    /\ outcome = err(0, <<"expected", "b">>)

C31_FailureKeepsConsumption ==
    (/\ pc = "done"
     /\ comb # "look_ahead"
     /\ outcome.tag \in {"Error", "Incomplete"})
        => outcome.b = AfterLast

\* C11: option(f, d) returns what or(f, g) returns for the same result of f
\* when g succeeds with d without consuming: the same tag, offset and value
\* or requested count.
C11_OptionIsOr ==
    (pc = "done" /\ comb = "option")
        => LET k == or_match(Marker(i0), calls[1].r)
           IN  outcome = IF "g" \in DOMAIN k THEN always_ret(k.g, default)
                         ELSE k.ret

C11_Witness ==
    /\ pc = "done"
    /\ comb = "option"
    /\ f = "string_ab"
    /\ input = <<"a", "a">>
    /\ i0 = 0
    /\ default = "d"
    /\ calls[1].r.tag = "Error"
    /\ calls[1].r.b = 1
    /\ outcome = ret(0, "d")

(***************************************************************************)
(* Buffers (src/buffer/buffer.rs).  The struct is a record [buffer,        *)
(* populated, limit, used]; buffer is the backing Vec, whose length is     *)
(* kept equal to its capacity by set_len, with 0 for an item never         *)
(* written.  The DataSource hands out the items 1, 2, ... SrcLen in order. *)
(* A call yields [self |-> the struct after it, panic |-> whether it       *)
(* aborted, ret |-> its return value].                                     *)
(***************************************************************************)
MaxSize == 4        \* largest size of a FixedSizeBuffer
MaxCap == 5         \* largest capacity a GrowingBuffer is grown to
MaxLimit == 2       \* largest limit of a GrowingBuffer
MaxItems == 3       \* largest argument of request_space and consume
SrcLen == 4         \* number of items the DataSource holds

Min2(x, y) == IF x <= y THEN x ELSE y

\* return values: Ok(n) and Err of fill, () of the others
Ok(n) == [tag |-> "Ok", n |-> n]

Err == [tag |-> "Err", n |-> 0]

Unit == [tag |-> "()", n |-> 0]

Returned(b, v) == [self |-> b, panic |-> FALSE, ret |-> v]

Panicked(b) == [self |-> b, panic |-> TRUE, ret |-> [tag |-> "panic", n |-> 0]]

\* DataSource::read on a region of `free` items, `at` items handed out so far
read(free, at) ==
    {[ok |-> FALSE, n |-> 0]}
    \cup {[ok |-> TRUE, n |-> k] : k \in 0..Min2(free, SrcLen - at)}

\* the backing store after the source wrote its next k items at populated
Written(b, at, k) ==
    [j \in 1..Len(b.buffer) |->
        IF b.populated < j /\ j <= b.populated + k THEN at + (j - b.populated)
        ELSE b.buffer[j]]

\* mutant: the offsets are reset without moving the unconsumed items
Compacted_NoCopy(b) ==
    [b EXCEPT !.populated = b.populated - b.used, !.used = 0]

\* ptr::copy of [used, populated) to offset 0, populated -= used, used = 0
Compacted(b) ==
    [b EXCEPT !.buffer = [j \in 1..Len(b.buffer) |->
                            IF j <= b.populated - b.used THEN b.buffer[b.used + j]
                            ELSE b.buffer[j]],
              !.populated = b.populated - b.used,
              !.used = 0]

\* Vec::reserve(items) followed by set_len(capacity): capacity c
Reserved(b, c) ==
    [b EXCEPT !.buffer = [j \in 1..c |-> IF j <= Len(b.buffer) THEN b.buffer[j] ELSE 0]]

\* the items a parser is shown: self.buffer[used..populated]
Window(b) == SubSeq(b.buffer, b.used + 1, b.populated)

capacity(b) == Len(b.buffer)

len(b) == b.populated - b.used

\* FixedSizeBuffer
FixedSizeBuffer_with_size(size) ==
    [buffer |-> [j \in 1..size |-> 0], populated |-> 0, limit |-> 0, used |-> 0]

\* mutant: fill returns 0 whatever the count read
FixedSizeBuffer_fill_ReturnsZero(b, r, at) ==
    IF ~r.ok THEN Returned(b, Err)
    ELSE IF build = "debug" /\ ~(b.populated + r.n <= Len(b.buffer)) THEN Panicked(b)
    ELSE Returned([b EXCEPT !.buffer = Written(b, at, r.n),
                            !.populated = b.populated + r.n], Ok(0))

\* mutant: fill returns the populated length instead of the count read
FixedSizeBuffer_fill_ReturnsPopulated(b, r, at) ==
    IF ~r.ok THEN Returned(b, Err)
    ELSE IF build = "debug" /\ ~(b.populated + r.n <= Len(b.buffer)) THEN Panicked(b)
    ELSE Returned([b EXCEPT !.buffer = Written(b, at, r.n),
                            !.populated = b.populated + r.n], Ok(b.populated + r.n))

FixedSizeBuffer_fill(b, r, at) ==
    IF ~r.ok THEN Returned(b, Err)
    ELSE IF build = "debug" /\ ~(b.populated + r.n <= Len(b.buffer)) THEN Panicked(b)
    ELSE Returned([b EXCEPT !.buffer = Written(b, at, r.n),
                            !.populated = b.populated + r.n], Ok(r.n))

\* mutant: a request that compaction cannot satisfy enlarges the backing store
FixedSizeBuffer_request_space_Grows(b, items) ==
    IF ~(b.populated >= b.used) THEN {Panicked(b)}
    ELSE IF Len(b.buffer) - b.populated < items
         THEN IF Len(b.buffer) - len(b) < items
              THEN {Returned(Reserved(Compacted(b), len(b) + items), Unit)}
              ELSE {Returned(Compacted(b), Unit)}
    ELSE {Returned(b, Unit)}

\* mutant: the unconsumed items are never moved to make room
FixedSizeBuffer_request_space_NoCompact(b, items) ==
    IF ~(b.populated >= b.used) THEN {Panicked(b)}
    ELSE {Returned(b, Unit)}

FixedSizeBuffer_request_space(b, items) ==
    IF ~(b.populated >= b.used) THEN {Panicked(b)}
    ELSE IF Len(b.buffer) - b.populated < items THEN {Returned(Compacted(b), Unit)}
    ELSE {Returned(b, Unit)}

FixedSizeBuffer_consume(b, items) ==
    IF build = "debug" /\ ~(b.used + items <= b.populated) THEN Panicked(b)
    ELSE Returned([b EXCEPT !.used = b.used + items], Unit)

\* GrowingBuffer
GrowingBuffer_with_limit(limit) ==
    [buffer |-> <<>>, populated |-> 0, limit |-> limit, used |-> 0]

\* mutant: populated is set to the count read instead of advanced by it
GrowingBuffer_fill_SetsPopulated(b, r, at) ==
    IF ~r.ok THEN Returned(b, Err)
    ELSE IF build = "debug" /\ ~(b.populated + r.n <= Len(b.buffer)) THEN Panicked(b)
    ELSE Returned([b EXCEPT !.buffer = Written(b, at, r.n),
                            !.populated = r.n], Ok(r.n))

GrowingBuffer_fill(b, r, at) ==
    IF ~r.ok THEN Returned(b, Err)
    ELSE IF build = "debug" /\ ~(b.populated + r.n <= Len(b.buffer)) THEN Panicked(b)
    ELSE Returned([b EXCEPT !.buffer = Written(b, at, r.n),
                            !.populated = b.populated + r.n], Ok(r.n))

\* items + self.len() > self.buffer.capacity(), in usize arithmetic: with
\* used > populated (reachable in a release build only) len() wraps around
GrowingBuffer_must_grow(b, items) ==
    IF b.used <= b.populated THEN items + len(b) > Len(b.buffer)
    ELSE IF items >= b.used - b.populated
         THEN items - (b.used - b.populated) > Len(b.buffer)
    ELSE TRUE

\* mutant: the backing store is reallocated on every request
GrowingBuffer_reserve_Always(b, items) ==
    {Reserved(b, Len(b.buffer) + items)}

\* the capacities Vec::reserve(items) may leave: at least len + items, and
\* up to the amortised doubling
GrowingBuffer_reserve(b, items) ==
    IF GrowingBuffer_must_grow(b, items)
    THEN {Reserved(b, c) : c \in (Len(b.buffer) + items)
                                  ..Max2(Len(b.buffer) + items, 2 * Len(b.buffer))}
    ELSE {b}

\* mutant: a buffer past its limit is still compacted
GrowingBuffer_request_space_CompactsPastLimit(b, items) ==
    IF b.limit # 0 /\ Len(b.buffer) > b.limit
    THEN {IF Len(b.buffer) - b.populated < items /\ b.used <= b.populated
          THEN Returned(Compacted(b), Unit)
          ELSE Returned(b, Unit)}
    ELSE {IF Len(gb.buffer) - gb.populated < items
          THEN IF gb.used <= gb.populated THEN Returned(Compacted(gb), Unit)
               ELSE Panicked(gb)
          ELSE Returned(gb, Unit) : gb \in GrowingBuffer_reserve(b, items)}

\* mutant: the buffer is compacted also when the tail is exactly large enough
GrowingBuffer_request_space_OffByOne(b, items) ==
    IF b.limit # 0 /\ Len(b.buffer) > b.limit THEN {Returned(b, Unit)}
    ELSE {IF Len(gb.buffer) - gb.populated <= items
          THEN IF gb.used <= gb.populated THEN Returned(Compacted(gb), Unit)
               ELSE Panicked(gb)
          ELSE Returned(gb, Unit) : gb \in GrowingBuffer_reserve(b, items)}

GrowingBuffer_request_space(b, items) ==
    IF b.limit # 0 /\ Len(b.buffer) > b.limit THEN {Returned(b, Unit)}
    ELSE {IF Len(gb.buffer) - gb.populated < items
          THEN IF gb.used <= gb.populated THEN Returned(Compacted(gb), Unit)
               ELSE Panicked(gb)    \* ptr::copy of a wrapped count
          ELSE Returned(gb, Unit) : gb \in GrowingBuffer_reserve(b, items)}

GrowingBuffer_consume(b, items) ==
    IF build = "debug" /\ ~(b.used + items <= b.populated) THEN Panicked(b)
    ELSE Returned([b EXCEPT !.used = b.used + items], Unit)

InitBuf ==
    /\ kind \in {"fixed", "growing"}
    /\ self \in IF kind = "fixed"
                THEN {FixedSizeBuffer_with_size(size) : size \in 1..MaxSize}
                ELSE {GrowingBuffer_with_limit(limit) : limit \in 0..MaxLimit}
    /\ build \in {"debug", "release"}
    /\ srcpos = 0
    /\ lastop = [op |-> "none", n |-> 0, ret |-> Unit, pre |-> self]
    /\ pc = "ready"
    /\ input = <<>>
    /\ eoi = FALSE
    /\ calls = <<>>
    /\ outcome = NoOutcome
    /\ IdleMany
    /\ IdleComb
    /\ IdleStream

BufReturn(op, n, res) ==
    /\ self' = res.self
    /\ lastop' = [op |-> op, n |-> n, ret |-> res.ret, pre |-> self]
    /\ pc' = IF res.panic THEN "panic" ELSE "ready"
    /\ UNCHANGED <<kind, build, input, eoi, calls, outcome, manyVars, combVars, streamVars>>

fill ==
    /\ pc = "ready"
    /\ self.populated <= Len(self.buffer)
    /\ \E r \in read(Len(self.buffer) - self.populated, srcpos) :
        /\ srcpos' = IF r.ok THEN srcpos + r.n ELSE srcpos
        /\ BufReturn("fill", 0, IF kind = "fixed"
                                THEN FixedSizeBuffer_fill(self, r, srcpos)
                                ELSE GrowingBuffer_fill(self, r, srcpos))

request_space ==
    /\ pc = "ready"
    /\ \E items \in 0..MaxItems :
       \E res \in IF kind = "fixed"
                  THEN FixedSizeBuffer_request_space(self, items)
                  ELSE GrowingBuffer_request_space(self, items) :
        /\ Len(res.self.buffer) <= MaxCap
        /\ BufReturn("request_space", items, res)
    /\ UNCHANGED srcpos

consume ==
    /\ pc = "ready"
    /\ \E items \in 0..MaxItems :
        /\ self.used + items <= MaxCap
        /\ BufReturn("consume", items, IF kind = "fixed"
                                       THEN FixedSizeBuffer_consume(self, items)
                                       ELSE GrowingBuffer_consume(self, items))
    /\ UNCHANGED srcpos

NextBuf == fill \/ request_space \/ consume

SpecBuf == InitBuf /\ [][NextBuf]_vars

\* C2 as stated: after every fill, consume and request_space call, in any
\* order and with any arguments, used <= populated <= capacity.
C2_BufferInvariant ==
    (pc = "ready" /\ lastop.op \in {"fill", "consume", "request_space"})
        => self.used <= self.populated /\ self.populated <= capacity(self)

\* the call that has just returned
Called(op) == pc = "ready" /\ lastop.op = op

\* the free tail of a buffer: capacity - populated
FreeTail(b) == capacity(b) - b.populated

\* a GrowingBuffer whose capacity is beyond its non-zero limit
PastLimit(b) == b.limit # 0 /\ capacity(b) > b.limit

\* C14 as stated: after request_space(n) returns, capacity - populated >= n.
C14_Original == Called("request_space") => FreeTail(self) >= lastop.n

\* C14 as amended: after request_space(n) returns, capacity - populated >= n
\* for a GrowingBuffer that was not past its limit, and for a
\* FixedSizeBuffer when n <= capacity - len(); a FixedSizeBuffer asked for
\* more is compacted and has a tail of capacity - len().
C14_SpaceWhenPossible ==
    Called("request_space") =>
        LET pre == lastop.pre
        IN  /\ (kind = "growing" /\ ~PastLimit(pre)) => FreeTail(self) >= lastop.n
            /\ (kind = "fixed" /\ lastop.n <= capacity(pre) - len(pre))
                  => FreeTail(self) >= lastop.n
            /\ (kind = "fixed" /\ lastop.n > capacity(pre) - len(pre))
                  => self.used = 0 /\ FreeTail(self) = capacity(pre) - len(pre)

C14_Witness ==
    /\ Called("request_space")
    /\ kind = "growing"
    /\ lastop.pre.used > 0
    /\ lastop.pre.used < lastop.pre.populated
    /\ FreeTail(lastop.pre) < lastop.n
    /\ capacity(self) > capacity(lastop.pre)
    /\ FreeTail(self) >= lastop.n

\* request_space left used and populated as they were
Untouched == self.used = lastop.pre.used /\ self.populated = lastop.pre.populated

\* request_space moved the unconsumed items to offset 0
DidCompact ==
    /\ self.used = 0
    /\ self.populated = lastop.pre.populated - lastop.pre.used
    /\ \A j \in 1..self.populated : self.buffer[j] = lastop.pre.buffer[lastop.pre.used + j]

\* len() and the items of the window [used, populated) are as before the call
SameWindow == len(self) = len(lastop.pre) /\ Window(self) = Window(lastop.pre)

\* C15 as stated (capacity read as the capacity the call leaves):
\* request_space(n) changes neither used nor populated when
\* capacity - populated >= n and compacts otherwise; len() and the window
\* are the same before and after.
C15_Original ==
    Called("request_space") =>
        /\ IF capacity(self) - lastop.pre.populated >= lastop.n THEN Untouched
           ELSE DidCompact
        /\ SameWindow

\* C15 as amended: the same for a FixedSizeBuffer and for a GrowingBuffer
\* that is not past its limit; a GrowingBuffer past its limit is left as it
\* is whatever n.
C15_CompactsWhenNeeded ==
    Called("request_space") =>
        /\ IF PastLimit(lastop.pre) THEN Untouched
           ELSE IF capacity(self) - lastop.pre.populated >= lastop.n THEN Untouched
           ELSE DidCompact
        /\ SameWindow

C15_Witness ==
    /\ Called("request_space")
    /\ kind = "fixed"
    /\ lastop.pre.used > 0
    /\ len(lastop.pre) = 2
    /\ DidCompact
    /\ Window(self) = Window(lastop.pre)
    /\ self.buffer # lastop.pre.buffer

\* C16 as stated: consume(n) with used + n <= populated advances used by n and
\* changes nothing else; consume(n) with used + n > populated aborts and
\* leaves no state with used > populated.
C16_ConsumeChecked ==
    lastop.op = "consume" =>
        IF lastop.pre.used + lastop.n <= lastop.pre.populated
        THEN pc = "ready" /\ self = [lastop.pre EXCEPT !.used = lastop.pre.used + lastop.n]
        ELSE pc = "panic" /\ self.used <= self.populated

\* C17: a fill that succeeds returns the count k read, k <= capacity -
\* populated, advances populated by k, leaves every position below the old
\* populated, used and the capacity as they were; a fill that fails leaves
\* the buffer as it was.
C17_FillFrame ==
    Called("fill") =>
        LET pre == lastop.pre
        IN  IF lastop.ret.tag = "Ok"
            THEN /\ lastop.ret.n <= FreeTail(pre)
                 /\ self.populated = pre.populated + lastop.ret.n
                 /\ self.used = pre.used
                 /\ capacity(self) = capacity(pre)
                 /\ \A j \in 1..pre.populated : self.buffer[j] = pre.buffer[j]
                 /\ \A j \in (self.populated + 1)..capacity(self) :
                        self.buffer[j] = pre.buffer[j]
            ELSE lastop.ret = Err /\ self = pre

C17_Witness ==
    /\ Called("fill")
    /\ kind = "growing"
    /\ lastop.pre.used = 1
    /\ lastop.pre.populated = 2
    /\ lastop.ret = Ok(2)
    /\ self.populated = 4
    /\ Window(self) = <<2, 3, 4>>

\* C18: the capacity of a FixedSizeBuffer is the same after every call, and
\* a fill on a FixedSizeBuffer with populated = capacity returns 0 and
\* changes nothing, whatever used is.
C18_FixedNeverGrows ==
    (kind = "fixed" /\ lastop.op # "none") =>
        /\ capacity(self) = capacity(lastop.pre)
        /\ (Called("fill") /\ lastop.pre.populated = capacity(lastop.pre)
                /\ lastop.ret.tag = "Ok")
              => lastop.ret = Ok(0) /\ self = lastop.pre

C18_Witness ==
    /\ Called("fill")
    /\ kind = "fixed"
    /\ capacity(self) = 2
    /\ lastop.pre.populated = 2
    /\ lastop.pre.used = 2
    /\ srcpos < SrcLen
    /\ lastop.ret = Ok(0)

\* len() + n > capacity as request_space computes it, in usize arithmetic
\* (len() is populated - used and wraps around when used > populated)
ExceedsCapacity(b, n) ==
    IF b.used <= b.populated THEN (b.populated - b.used) + n > capacity(b)
    ELSE (n < b.used - b.populated) \/ (n - (b.used - b.populated) > capacity(b))

\* C19: no call decreases the capacity of a GrowingBuffer, and only a
\* request_space(n) with len() + n above the capacity increases it.
C19_GrowsOnlyWhenNeeded ==
    (kind = "growing" /\ lastop.op # "none") =>
        /\ capacity(self) >= capacity(lastop.pre)
        /\ capacity(self) > capacity(lastop.pre)
              => lastop.op = "request_space" /\ ExceedsCapacity(lastop.pre, lastop.n)

\* compaction sufficed: the tail was too small, the capacity is unchanged
C19_Witness ==
    /\ Called("request_space")
    /\ kind = "growing"
    /\ FreeTail(lastop.pre) < lastop.n
    /\ len(lastop.pre) > 0
    /\ ~ExceedsCapacity(lastop.pre, lastop.n)
    /\ capacity(self) = capacity(lastop.pre)
    /\ DidCompact

\* C20: request_space on a GrowingBuffer past its non-zero limit changes
\* nothing, whatever n, and a fill on such a buffer with a full tail returns 0
\* and changes nothing.
C20_PastLimitNoOp ==
    (kind = "growing" /\ PastLimit(lastop.pre)) =>
        /\ Called("request_space") => self = lastop.pre
        /\ (Called("fill") /\ lastop.pre.populated = capacity(lastop.pre)
                /\ lastop.ret.tag = "Ok")
              => lastop.ret = Ok(0) /\ self = lastop.pre

C20_Witness ==
    /\ Called("request_space")
    /\ kind = "growing"
    /\ PastLimit(lastop.pre)
    /\ lastop.pre.used > 0
    /\ lastop.pre.used < lastop.pre.populated
    /\ FreeTail(lastop.pre) < lastop.n
    /\ self = lastop.pre

\* C21: a GrowingBuffer with a non-zero limit never has a capacity above the
\* limit, whatever request_space calls were made.
C21_LimitIsMax ==
    (kind = "growing" /\ self.limit # 0) => capacity(self) <= self.limit

(***************************************************************************)
(* Stream driver (spec section 4.3): a buffer, a data source and the       *)
(* retry loop around one parser.  parse runs the parser on the window      *)
(* [used, populated) of the buffer; Data and Error commit the consumed     *)
(* length; Incomplete(n) makes the driver request space for n items and    *)
(* fill until the window has grown by n or a fill yields 0, which asserts  *)
(* END_OF_INPUT; an Incomplete with END_OF_INPUT set is terminal.  The     *)
(* buffer calls are the operators of src/buffer/buffer.rs above.           *)
(***************************************************************************)
MaxParses == 2      \* parse calls made on one stream

StreamParsers == {"take_4", "arbitrary"}

\* enough capacity for every request the driver can make
StreamCap == 2 * Max2(MaxReq, SrcLen) + SrcLen

StreamOk(v) == [tag |-> "Data", v |-> v]

StreamError_ParseError(e) == [tag |-> "Error", e |-> e]

StreamError_Incomplete(n) == [tag |-> "Incomplete", n |-> n]

StreamError_IoError == [tag |-> "Error", e |-> "IoError"]

Buffer_fill(b, r, at) ==
    IF kind = "fixed" THEN FixedSizeBuffer_fill(b, r, at)
    ELSE GrowingBuffer_fill(b, r, at)

Buffer_request_space(b, items) ==
    IF kind = "fixed" THEN FixedSizeBuffer_request_space(b, items)
    ELSE GrowingBuffer_request_space(b, items)

Buffer_consume(b, items) ==
    IF kind = "fixed" THEN FixedSizeBuffer_consume(b, items)
    ELSE GrowingBuffer_consume(b, items)

\* the trace of a parse call keeps the attempt being retried and the retry
LastTwo(cs) == IF Len(cs) > 2 THEN SubSeq(cs, Len(cs) - 1, Len(cs)) ELSE cs

\* what the driver looks at in the State of an attempt: the remainder of a
\* Data or Error, and only the count of an Incomplete
Seen(r) == IF r.tag = "Incomplete" THEN incomplete(0, r.n) ELSE r

InitStream ==
    /\ kind \in {"fixed", "growing"}
    /\ self \in IF kind = "fixed"
                THEN {FixedSizeBuffer_with_size(size) : size \in 1..MaxSize}
                ELSE {GrowingBuffer_with_limit(limit) : limit \in 0..MaxLimit}
    /\ build \in {"debug", "release"}
    /\ srcpos = 0
    /\ lastop = [op |-> "none", n |-> 0, ret |-> Unit, pre |-> self]
    /\ committed = 0
    /\ request = 0
    /\ nparse = 1
    /\ pos = 0
    /\ parser \in StreamParsers
    /\ input = <<>>
    /\ eoi = FALSE
    /\ calls = <<>>
    /\ pc = "attempt"
    /\ outcome = NoOutcome
    /\ range = [shape |-> "none"]
    /\ buf = 0
    /\ mark = 0
    /\ data = <<>>
    /\ state = [tag |-> "None"]
    /\ result = <<>>
    /\ sep = "none"
    /\ item = FALSE
    /\ skipped = [tag |-> "None"]
    /\ IdleComb

\* one attempt: the parser on the current window, then the commit or the
\* request for more
Stream_parse ==
    /\ pc = "attempt"
    /\ \E r \in Run(parser, 0) :
        /\ calls' = LastTwo(Append(calls, [p |-> "f", at |-> committed, r |-> Seen(r),
                                           win |-> input, eoi |-> eoi]))
        /\ IF r.tag \in {"Data", "Error"}
           THEN LET res == Buffer_consume(self, r.b)
                IN  /\ self' = res.self
                    /\ committed' = committed + r.b
                    /\ outcome' = IF r.tag = "Data" THEN StreamOk(r.v)
                                  ELSE StreamError_ParseError(r.e)
                    /\ pc' = IF res.panic THEN "panic" ELSE "done"
                    /\ UNCHANGED request
           ELSE IF eoi
           THEN /\ outcome' = StreamError_Incomplete(r.n)
                /\ pc' = "done"
                /\ UNCHANGED <<self, committed, request>>
           ELSE \E res \in Buffer_request_space(self, r.n) :
                /\ Len(res.self.buffer) <= StreamCap
                /\ self' = res.self
                /\ request' = len(self) + r.n
                /\ pc' = IF res.panic THEN "panic" ELSE "fill"
                /\ UNCHANGED <<committed, outcome>>
    /\ UNCHANGED <<input, eoi, manyVars, combVars, kind, build, srcpos, lastop, nparse, pos>>

\* one turn of the fill loop
Stream_fill ==
    /\ pc = "fill"
    /\ \E r \in {x \in read(Len(self.buffer) - self.populated, srcpos) : x.ok} :
        LET res == Buffer_fill(self, r, srcpos)
        IN  /\ self' = res.self
            /\ srcpos' = srcpos + r.n
            /\ IF res.panic
               THEN pc' = "panic" /\ UNCHANGED <<eoi, input, outcome>>
               ELSE IF res.ret.n = 0
               THEN /\ eoi' = TRUE
                    /\ input' = Window(res.self)
                    /\ pc' = "attempt"
                    /\ UNCHANGED outcome
               ELSE IF len(res.self) >= request
               THEN /\ input' = Window(res.self)
                    /\ pc' = "attempt"
                    /\ UNCHANGED <<eoi, outcome>>
               ELSE /\ pc' = "fill"
                    /\ UNCHANGED <<eoi, input, outcome>>
    /\ UNCHANGED <<manyVars, combVars, kind, build, lastop, committed, request, nparse, pos, calls>>

\* a turn of the fill loop in which the source fails: the parse call ends
\* with that failure
Stream_fill_failed ==
    /\ pc = "fill"
    /\ \E r \in {x \in read(Len(self.buffer) - self.populated, srcpos) : ~x.ok} :
        LET res == Buffer_fill(self, r, srcpos)
        IN  /\ res.ret.tag = "Err"
            /\ self' = res.self
            /\ outcome' = StreamError_IoError
            /\ pc' = "done"
    /\ UNCHANGED <<input, eoi, manyVars, combVars, kind, build, srcpos, lastop,
                   committed, request, nparse, pos, calls>>

\* the caller makes the next parse call on the same stream
Stream_next ==
    /\ pc = "done"
    /\ nparse < MaxParses
    /\ nparse' = nparse + 1
    /\ parser' \in StreamParsers
    /\ input' = Window(self)
    /\ calls' = <<>>
    /\ outcome' = NoOutcome
    /\ pc' = "attempt"
    /\ UNCHANGED <<eoi, range, buf, mark, data, state, result, sep, item, skipped,
                   combVars, bufVars, committed, request, pos>>

NextStream == Stream_parse \/ Stream_fill \/ Stream_fill_failed \/ Stream_next

SpecStream == InitStream /\ [][NextStream]_vars

\* the loop of the driver takes its next step whenever it has one; nothing
\* obliges the source to fail
SpecStreamFair ==
    SpecStream /\ WF_vars(Stream_parse) /\ WF_vars(Stream_fill)

\* the items of source positions from + 1 .. from + k, in order
SourceItems(from, k) == [j \in 1..k |-> from + j]

\* C12: every attempt is shown exactly the unconsumed source items in order,
\* starting at the committed position; a retry starts at the same item as
\* the attempt before it, which was Incomplete(n), and either sees at least
\* n more items or runs after a fill that returned 0.
C12_RetrySameOffset ==
    \A k \in 1..Len(calls) :
        /\ calls[k].win = SourceItems(calls[k].at, Len(calls[k].win))
        /\ k > 1 =>
            /\ calls[k - 1].r.tag = "Incomplete"
            /\ calls[k].at = calls[k - 1].at
            /\ \/ Len(calls[k].win) >= Len(calls[k - 1].win) + calls[k - 1].r.n
               \/ calls[k].eoi

C12_Witness ==
    /\ pc = "done"
    /\ kind = "fixed"
    /\ Len(self.buffer) = 4
    /\ parser = "take_4"
    /\ Len(calls) = 2
    /\ calls[1].win = <<1, 2>>
    /\ calls[1].r = incomplete(0, 2)
    /\ ~calls[2].eoi
    /\ calls[2].win = <<1, 2, 3, 4>>
    /\ outcome = StreamOk(<<1, 2, 3, 4>>)
    /\ self.used = self.populated

C30_EndOfInputAtFirstZero ==
    [][/\ eoi => eoi'
       /\ (~eoi /\ eoi') => (pc = "fill" /\ pc' = "attempt" /\ srcpos' = srcpos)
       /\ (pc = "fill" /\ pc' \in {"fill", "attempt"} /\ srcpos' = srcpos) => eoi'
       /\ (pc = "attempt" /\ calls' # calls) => calls'[Len(calls')].eoi = eoi]_vars

\* an attempt without the flag, a fill that returned 0, an attempt with it
C30_Witness ==
    /\ Len(calls) = 2
    /\ calls[1].at = calls[2].at
    /\ ~calls[1].eoi
    /\ calls[2].eoi
    /\ srcpos < SrcLen
    /\ eoi

\* C36: end-of-input is set only when the source has handed out all its
\* items or has itself returned 0 on a region with room: a fill that returns 0
\* because the buffer has no free tail never sets it while items are unread.
C36_EndOfInputOnlyWhenExhausted ==
    [][(~eoi /\ eoi' /\ srcpos < SrcLen) => FreeTail(self) > 0]_vars

(***************************************************************************)
(* SliceStream (src/buffer/slice.rs): a stream over an immutable slice.    *)
(* `input` is the slice and `pos` the field pos; the Input handed to the   *)
(* parser is the view of the slice from pos on.                            *)
(***************************************************************************)
SliceParsers == {"token_f", "take_2", "take_4", "many_token_f_then_take_2", "arbitrary"}

\* the slice of the second example of slice.rs
Foofoo == <<"f", "o", "o", "f", "o", "o">>

SliceInputs == SeqsUpTo({"f", "o"}, MaxLen - 1) \cup {Foofoo}

\* InputBuf::new: whether the Input it builds has end-of-input set
InputBuf_new_is_end == TRUE

StreamError_EndOfInput == [tag |-> "EndOfInput"]

\* many(i, f) (the range ..) over a parser with one outcome, as a function:
\* the iterations from offset b on with the values res so far
RECURSIVE many_from(_, _, _)
many_from(p, b, res) ==
    LET r == CHOOSE x \in Run(p, b) : TRUE
    IN  IF r.tag = "Data" THEN many_from(p, r.b, Append(res, r.v))
        ELSE RangeFull_result(r.b, RangeFull_state(<<>>),
                              IF r.tag = "Error" THEN EndState_Error(Marker(b), r.e)
                              ELSE EndState_Incomplete(r.n),
                              res)

\* the States the parser handed to parse can return from offset i
RunOnSlice(p, i) ==
    IF p = "many_token_f_then_take_2" THEN {many_from("token_f_then_take_2", i, <<>>)}
    ELSE Run(p, i)

SliceStream_len(ps) == Len(input) - ps

\* mutant: the stream is never taken to be empty
SliceStream_is_empty_Never(ps) == FALSE

SliceStream_is_empty(ps) == SliceStream_len(ps) = 0

\* mutant: the parser is handed the slice from its start
SliceStream_input_FromStart(ps) == 0

\* &self.slice[self.pos..]: the offset the Input starts at
SliceStream_input(ps) == ps

\* remainder.len() of the Input a State carries
remainder_len(r) == Len(input) - r.b

\* mutant: the position is kept when the parser returns Error
SliceStream_parse_match_ErrorKeepsPos(ps, r) ==
    CASE r.tag = "Data" ->
            [pos |-> ps + (SliceStream_len(ps) - remainder_len(r)), ret |-> StreamOk(r.v)]
      [] r.tag = "Incomplete" ->
            [pos |-> ps, ret |-> StreamError_Incomplete(SliceStream_len(ps) + 1)]
      [] r.tag = "Error" ->
            [pos |-> ps, ret |-> StreamError_ParseError(r.e)]

\* mutant: an Incomplete outcome commits what the parser consumed
SliceStream_parse_match_IncompleteCommits(ps, r) ==
    IF r.tag = "Data"
    THEN [pos |-> ps + (SliceStream_len(ps) - remainder_len(r)), ret |-> StreamOk(r.v)]
    ELSE [pos |-> ps + (SliceStream_len(ps) - remainder_len(r)),
          ret |-> IF r.tag = "Incomplete"
                  THEN StreamError_Incomplete(SliceStream_len(ps) + 1)
                  ELSE StreamError_ParseError(r.e)]

\* the arms of the match in parse: the new pos and the Result
SliceStream_parse_match(ps, r) ==
    CASE r.tag = "Data" ->
            [pos |-> ps + (SliceStream_len(ps) - remainder_len(r)), ret |-> StreamOk(r.v)]
      [] r.tag = "Incomplete" ->
            [pos |-> ps, ret |-> StreamError_Incomplete(SliceStream_len(ps) + 1)]
      [] r.tag = "Error" ->
            [pos |-> ps + (SliceStream_len(ps) - remainder_len(r)),
             ret |-> StreamError_ParseError(r.e)]

InitSlice ==
    /\ input \in SliceInputs
    /\ eoi = InputBuf_new_is_end
    /\ pos = 0
    /\ nparse = 0
    /\ committed = 0
    /\ request = 0
    /\ parser \in SliceParsers
    /\ calls = <<>>
    /\ pc = "slice"
    /\ outcome = NoOutcome
    /\ range = [shape |-> "none"]
    /\ buf = 0
    /\ mark = 0
    /\ data = <<>>
    /\ state = [tag |-> "None"]
    /\ result = <<>>
    /\ sep = "none"
    /\ item = FALSE
    /\ skipped = [tag |-> "None"]
    /\ IdleComb
    /\ IdleBuf

\* one call of SliceStream::parse with the parser f (the variable parser);
\* the caller then picks the parser of its next call
SliceStream_parse ==
    /\ pc = "slice"
    /\ nparse < MaxParses
    /\ nparse' = nparse + 1
    /\ parser' \in IF nparse' < MaxParses THEN SliceParsers ELSE {"none"}
    /\ IF SliceStream_is_empty(pos)
       THEN /\ outcome' = StreamError_EndOfInput
            /\ UNCHANGED <<pos, calls>>
       ELSE \E r \in RunOnSlice(parser, SliceStream_input(pos)) :
            LET m == SliceStream_parse_match(pos, r)
            IN  /\ pos' = m.pos
                /\ outcome' = m.ret
                /\ calls' = Append(calls, [p |-> parser, at |-> SliceStream_input(pos),
                                           r |-> r, eoi |-> eoi, pos |-> pos,
                                           nth |-> nparse'])
    /\ UNCHANGED <<input, eoi, range, buf, mark, data, state, result, sep, item, skipped,
                   combVars, bufVars, committed, request, pc>>

NextSlice == SliceStream_parse

SpecSlice == InitSlice /\ [][NextSlice]_vars

\* the parse call that has just returned ran the parser
Parsed == calls # <<>> /\ calls[Len(calls)].nth = nparse

\* C27 as stated: when the parser returns Incomplete(n), parse returns
\* StreamError::Incomplete carrying that n, and the parser was run once.
C27_IncompleteCarriesN ==
    (Parsed /\ LastIs("Incomplete"))
        => /\ outcome = StreamError_Incomplete(Last.r.n)
           /\ Len(calls) <= nparse

\* C28: a Data outcome advances pos by the items consumed and parse returns
\* the value; an Error outcome advances pos to the point of the failure and
\* parse returns the ParseError; the parser runs once per parse call, and the
\* next call starts at the position so committed.
C28_SliceCommit ==
    /\ Len(calls) <= nparse
    /\ \A k \in 1..Len(calls) :
          /\ calls[k].at = calls[k].pos
          /\ calls[k].pos = IF k = 1 THEN 0
                            ELSE IF calls[k - 1].r.tag = "Incomplete" THEN calls[k - 1].pos
                            ELSE calls[k - 1].r.b
          /\ k > 1 => \A j \in 1..(k - 1) : calls[j].nth < calls[k].nth
    /\ (Parsed /\ LastIs("Data"))
          => pos = Last.pos + (Last.r.b - Last.at) /\ outcome = StreamOk(Last.r.v)
    /\ (Parsed /\ LastIs("Error"))
          => pos = Last.r.b /\ outcome = StreamError_ParseError(Last.r.e)

\* a parse that failed after consuming, then a parse from the point of failure
C28_Witness ==
    /\ Len(calls) = 2
    /\ calls[1].r.tag = "Error"
    /\ calls[1].r.b > 0
    /\ calls[2].at = calls[1].r.b
    /\ calls[2].r.tag = "Data"
    /\ calls[2].r.b > calls[2].at
    /\ pos = calls[2].r.b

\* C29: parse runs the parser on the whole of the slice that remains, from
\* pos to the end, with end-of-input set: many (..), which gives Data on
\* running out of input only under end-of-input, always gives Data.
C29_WholeRemainder ==
    \A k \in 1..Len(calls) :
        /\ calls[k].eoi
        /\ calls[k].at = calls[k].pos
        /\ calls[k].r.b \in calls[k].pos..Len(input)
        /\ calls[k].p = "many_token_f_then_take_2" => calls[k].r.tag = "Data"

\* many of token(f), take(2) over foofoo
C29_Witness ==
    /\ input = Foofoo
    /\ Len(calls) = 1
    /\ Last.p = "many_token_f_then_take_2"
    /\ Parsed
    /\ outcome.tag = "Data"
    /\ outcome.v = <<(<<"o", "o">>), <<"o", "o">>>>
    /\ pos = Len(input)

\* C38: a parse call on a stream with no items left returns EndOfInput
\* without running the parser, whatever the parser, and keeps pos.
C38_EmptyIsEndOfInput ==
    [][(nparse' # nparse /\ pos = Len(input))
          => /\ outcome'.tag = StreamError_EndOfInput.tag
             /\ calls' = calls
             /\ pos' = pos]_vars

\* the slice has been parsed to its end and a further call was made
C38_Witness ==
    /\ outcome.tag = "EndOfInput"
    /\ Len(input) > 0
    /\ pos = Len(input)
    /\ Len(calls) = 1
    /\ nparse = 2

\* C39: pos stays within 0 .. the length of the slice and never decreases,
\* and a parse call that ends in Incomplete leaves it where it was, even when
\* the parser consumed items before it returned Incomplete.
C39_PosMonotone ==
    [][/\ pos' \in pos..Len(input)
       /\ pos \in 0..Len(input)
       /\ (nparse' # nparse /\ outcome'.tag = "Incomplete") => pos' = pos]_vars

\* the parser consumed an item and then returned Incomplete
C39_Witness ==
    /\ Parsed
    /\ LastIs("Incomplete")
    /\ Last.r.b > Last.at
    /\ outcome.tag = "Incomplete"
    /\ pos = Last.pos

====
